---- MODULE Spec2Model ----
(***************************************************************************)
(* Auto Open Files (VS Code extension): the active-editor listener and     *)
(* handleFileOpen of the build with maxTab / hasOppositeRule /             *)
(* onlyIfMultipleTabs, over a small model of the host (editor columns,     *)
(* loaded documents, the disk).                                            *)
(*                                                                         *)
(* Strings are sequences of one-character strings.  A handler is a         *)
(* process that is suspended at its awaits (fileExists, the close command, *)
(* openFile); the code between two awaits is one atomic step.              *)
(*                                                                         *)
(* Specifications:                                                         *)
(*   Spec            one listener run at a time, the settings fixed        *)
(*   SpecConcurrent  events that arrive while a run is suspended           *)
(*   SpecConfig      settings that change while the extension runs         *)
(*   SpecMemo        the build of out/extension.js, with processedFiles    *)
(***************************************************************************)
EXTENDS Integers, Sequences, FiniteSets, TLC

\* ------------------------------------------------------------------ bounds

\* Number of editor columns the host offers.
MaxCol == 3
\* Largest value of the autoOpenFiles.maxTab setting that is explored.
MaxTabSetting == 2

\* ------------------------------------------------- host (vscode) constants

ViewColumnActive == -1
ViewColumnBeside == -2
ViewColumnOne == 1

\* ---------------------------------------------------------------- strings

\* The value of a capture group that did not participate in the match.
Undefined == <<"undefined">>

\* s.indexOf(pat): the first position at which pat occurs in s, 0 if none.
IndexOf(s, pat) ==
    LET hits == {p \in 1..(Len(s) - Len(pat) + 1) :
                    SubSeq(s, p, p + Len(pat) - 1) = pat}
    IN  IF hits = {} THEN 0 ELSE CHOOSE p \in hits : \A q \in hits : p <= q

\* s.lastIndexOf(c) for a one-character c, 0 if none.
LastIndexOf(s, c) ==
    LET hits == {p \in 1..Len(s) : s[p] = c}
    IN  IF hits = {} THEN 0 ELSE CHOOSE p \in hits : \A q \in hits : q <= p

\* String.prototype.replace(pat, rep) with a string pattern: only the FIRST
\* occurrence of pat is replaced.  (The replacement strings of the model hold
\* no "$", so the special replacement patterns $$, $& never apply.)
StringReplace(s, pat, rep) ==
    LET p == IndexOf(s, pat)
    IN  IF p = 0 THEN s
        ELSE SubSeq(s, 1, p - 1) \o rep \o SubSeq(s, p + Len(pat), Len(s))

\* The decimal text of a group number (groups 1..3 are all the model uses).
Digit(i) == CASE i = 1 -> "1" [] i = 2 -> "2" [] OTHER -> "3"

\* The template literal `$${i}`.
Placeholder(i) == <<"$", Digit(i)>>

\* path.basename / path.dirname / path.join on POSIX paths.  The paths of the
\* model hold no ".", ".." or empty segments, so join's normalisation only has
\* the empty second argument to deal with.
\* Mutant: the pattern is tested against the whole path.
basenameWholePath(p) == p

basename(p) == SubSeq(p, LastIndexOf(p, "/") + 1, Len(p))

dirname(p) ==
    LET k == LastIndexOf(p, "/")
    IN  IF k = 0 THEN <<".">> ELSE IF k = 1 THEN <<"/">> ELSE SubSeq(p, 1, k - 1)

pathJoin(d, n) == IF n = <<>> THEN d ELSE d \o <<"/">> \o n

\* ----------------------------------------------------------------- RegExp
\* A trigger pattern is a sequence of items:
\*   [k |-> "chr", c |-> ch]   the literal character ch
\*   [k |-> "grp"]             the capturing group (.+), greedy
\*   [k |-> "opt", c |-> ch]   the optional capturing group (ch)?
\*   [k |-> "eol"]             the anchor $
\*   [k |-> "bad"]             a syntax error: new RegExp throws

Chr(c) == [k |-> "chr", c |-> c]
Grp == [k |-> "grp", c |-> ""]
Opt(c) == [k |-> "opt", c |-> c]
Eol == [k |-> "eol", c |-> ""]
Bad == [k |-> "bad", c |-> ""]

\* regex.exec returned null.
NoMatch == [ok |-> FALSE, caps |-> <<>>]

\* new RegExp(src) throws a SyntaxError.
RegExpThrows(re) == \E n \in 1..Len(re) : re[n].k = "bad"

\* The match of items n.. of re against s from position pos on, given the
\* captures so far: [ok |-> TRUE, caps |-> the captures] of the first match in
\* the engine's priority order (greedy first), or NoMatch.
RECURSIVE MatchAt(_, _, _, _, _)
RECURSIVE MatchGrp(_, _, _, _, _, _)
MatchAt(re, n, s, pos, caps) ==
    IF n > Len(re) THEN [ok |-> TRUE, caps |-> caps]
    ELSE CASE re[n].k = "chr" ->
                IF pos <= Len(s) /\ s[pos] = re[n].c
                THEN MatchAt(re, n + 1, s, pos + 1, caps)
                ELSE NoMatch
           [] re[n].k = "eol" ->
                IF pos = Len(s) + 1
                THEN MatchAt(re, n + 1, s, pos, caps)
                ELSE NoMatch
           [] re[n].k = "opt" ->
                LET with == IF pos <= Len(s) /\ s[pos] = re[n].c
                            THEN MatchAt(re, n + 1, s, pos + 1,
                                         Append(caps, <<re[n].c>>))
                            ELSE NoMatch
                IN  IF with.ok THEN with
                    ELSE MatchAt(re, n + 1, s, pos, Append(caps, Undefined))
           [] re[n].k = "grp" ->
                MatchGrp(re, n, s, pos, caps, Len(s) - pos + 1)
           [] OTHER -> NoMatch

\* (.+) taking len characters, then fewer, down to one.
MatchGrp(re, n, s, pos, caps, len) ==
    IF len < 1 THEN NoMatch
    ELSE LET r == MatchAt(re, n + 1, s, pos + len,
                          Append(caps, SubSeq(s, pos, pos + len - 1)))
         IN  IF r.ok THEN r
             ELSE MatchGrp(re, n, s, pos, caps, len - 1)

\* regex.exec(s): caps = <<match[1], ..., match[N]>> of the leftmost match, or
\* NoMatch (null).
RECURSIVE ExecFrom(_, _, _)
ExecFrom(re, s, pos) ==
    IF pos > Len(s) + 1 THEN NoMatch
    ELSE LET r == MatchAt(re, 1, s, pos, <<>>)
         IN  IF r.ok THEN r ELSE ExecFrom(re, s, pos + 1)

RegExpExec(re, s) == ExecFrom(re, s, 1)

\* ------------------------------------------------------- rule evaluation

\* The loop of handleFileOpen that fills the placeholders: for i = 1 .. N,
\*   targetFileName = targetFileName.replace(`$${i}`, match[i] || '').
RECURSIVE ReplaceGroups(_, _, _)
ReplaceGroups(targetFileName, caps, i) ==
    IF i > Len(caps) THEN targetFileName
    ELSE LET replacement == IF caps[i] = Undefined THEN <<>> ELSE caps[i]
         IN  ReplaceGroups(StringReplace(targetFileName, Placeholder(i), replacement),
                           caps, i + 1)

\* targetFilePath of a rule that matched with the captures caps.
TargetFilePath(filePath, rule, caps) ==
    pathJoin(dirname(filePath), ReplaceGroups(rule.openPattern, caps, 1))

\* The first rule at or after index j at which the loop stops skipping: its
\* pattern matches the base name, or its RegExp cannot be built; 0 if none.
RECURSIVE NextStop(_, _, _)
NextStop(rules, fileName, j) ==
    IF j > Len(rules) THEN 0
    ELSE IF RegExpThrows(rules[j].triggerPattern) THEN j
    ELSE IF RegExpExec(rules[j].triggerPattern, fileName).ok THEN j
    ELSE NextStop(rules, fileName, j + 1)

\* ------------------------------------------------- placement resolution

\* case 'beside': case 'beside-right': the column after the current one; at
\* currentColumn === maxTab the current file is to be closed and, without an
\* opposite rule, reopened one column to the left.
BesideRight(rule, currentColumn, maxTab) ==
    [targetColumn |-> currentColumn + 1,
     doCloseCurrentFile |-> currentColumn = maxTab,
     targetColumnForCurrentFile |->
         IF currentColumn = maxTab /\ ~rule.hasOppositeRule
         THEN currentColumn - 1 ELSE currentColumn]

\* Mutant: the source reopened in the column it was closed in.
BesideLeftReopensInPlace(rule, currentColumn) ==
    [targetColumn |-> IF currentColumn > ViewColumnOne
                      THEN currentColumn - 1 ELSE ViewColumnOne,
     doCloseCurrentFile |-> currentColumn = ViewColumnOne,
     targetColumnForCurrentFile |-> currentColumn]

\* case 'beside-left': the column before the current one, or column One; at
\* column One the current file is to be closed and, without an opposite rule,
\* reopened one column to the right.
BesideLeft(rule, currentColumn) ==
    [targetColumn |-> IF currentColumn > ViewColumnOne
                      THEN currentColumn - 1 ELSE ViewColumnOne,
     doCloseCurrentFile |-> currentColumn = ViewColumnOne,
     targetColumnForCurrentFile |->
         IF currentColumn = ViewColumnOne /\ ~rule.hasOppositeRule
         THEN currentColumn + 1 ELSE currentColumn]

\* case 'active': default:
ActiveColumn(currentColumn) ==
    [targetColumn |-> ViewColumnActive,
     doCloseCurrentFile |-> FALSE,
     targetColumnForCurrentFile |-> currentColumn]

\* Mutant: the clamp compares with >= and so also moves a target at maxTab,
\* and is applied when maxTab is 0.
ClampToMaxTabAlways(targetColumn, maxTab) ==
    IF targetColumn >= maxTab
    THEN ViewColumnOne + (maxTab - 1) ELSE targetColumn

\* if (maxTab != 0 && targetColumn > maxTab) targetColumn = One + (maxTab - 1)
ClampToMaxTab(targetColumn, maxTab) ==
    IF maxTab # 0 /\ targetColumn > maxTab
    THEN ViewColumnOne + (maxTab - 1) ELSE targetColumn

\* The switch on rule.viewColumn followed by the maxTab clamp.
ResolveColumn(rule, currentColumn, maxTab) ==
    LET sw == CASE rule.viewColumn \in {"beside", "beside-right"} ->
                     BesideRight(rule, currentColumn, maxTab)
                [] rule.viewColumn = "beside-left" ->
                     BesideLeft(rule, currentColumn)
                [] OTHER -> ActiveColumn(currentColumn)
    IN  [sw EXCEPT !.targetColumn = ClampToMaxTab(sw.targetColumn, maxTab)]

\* ------------------------------------------------------------- the inputs

Dir == <<"/", "a">>
HtmlFile == Dir \o <<"/", "x", ".", "h">>
JsFile == Dir \o <<"/", "x", ".", "j">>
Files == {HtmlFile, JsFile}

\* No editor in a column; no active editor.
NoFile == <<>>

Rule(t, o, vc, opp, multi) ==
    [triggerPattern |-> t, openPattern |-> o, viewColumn |-> vc,
     hasOppositeRule |-> opp, onlyIfMultipleTabs |-> multi]

\* (.+)\.h$   (.+)\.j$   (.+)(y)?\.h$   a   and a pattern with a syntax error
TrigHtml == <<Grp, Chr("."), Chr("h"), Eol>>
TrigJs == <<Grp, Chr("."), Chr("j"), Eol>>
TrigOpt == <<Grp, Opt("y"), Chr("."), Chr("h"), Eol>>
TrigDir == <<Chr("a")>>
TrigBad == <<Bad>>

\* $1.j   $1.h   $1$2.j   $1/$1.j
OpenJs == <<"$", "1", ".", "j">>
OpenHtml == <<"$", "1", ".", "h">>
OpenTwo == <<"$", "1", "$", "2", ".", "j">>
OpenTwice == <<"$", "1", "/", "$", "1", ".", "j">>

ViewColumns == {"beside", "active", "beside-left", "beside-right"}

\* The values of autoOpenFiles.rules that are explored.
RuleLists ==
    {<<>>}
    \cup {<<Rule(TrigHtml, OpenJs, vc, opp, FALSE)>> :
            vc \in ViewColumns, opp \in BOOLEAN}
    \cup {<<Rule(TrigHtml, OpenJs, vc, FALSE, TRUE)>> :
            vc \in {"beside", "beside-left"}}
    \cup {<<Rule(TrigHtml, OpenJs, "beside-right", TRUE, FALSE),
            Rule(TrigJs, OpenHtml, "beside-left", TRUE, FALSE)>>,
          <<Rule(TrigDir, OpenJs, "beside", FALSE, FALSE),
            Rule(TrigOpt, OpenTwo, "beside", FALSE, FALSE)>>,
          <<Rule(TrigHtml, OpenHtml, "active", FALSE, FALSE),
            Rule(TrigHtml, OpenTwice, "beside", FALSE, FALSE)>>,
          <<Rule(TrigBad, OpenJs, "beside", FALSE, FALSE),
            Rule(TrigHtml, OpenJs, "active", FALSE, FALSE)>>,
          <<Rule(TrigHtml, OpenJs, "beside-left", FALSE, TRUE),
            Rule(TrigHtml, OpenJs, "beside", FALSE, FALSE)>>}

\* The listener runs that can be in flight at once.  Spec and SpecMemo follow
\* one run at a time (handler 1); SpecConcurrent lets the host send an event
\* while an earlier run is suspended.
Handlers == {1, 2}

\* ---------------------------------------------------------------- the state

VARIABLES
    config,   \* the autoOpenFiles settings: enabled, maxTab, rules
    disk,     \* the paths fs.access succeeds for (existing and accessible)
    cols,     \* host: the file of the visible editor of each column, or NoFile
    loaded,   \* host: workspace.textDocuments, the loaded documents
    active,   \* host: the column of the active editor, 0 if there is none
    hs,       \* per handler: where it is suspended, and its locals
    log,      \* per handler: the requests its current event has sent the host
    processedFiles  \* the memo of the builds that have one: the paths processed

vars == <<config, disk, cols, loaded, active, hs, log, processedFiles>>

Columns == 1..MaxCol

\* window.visibleTextEditors, as the set of their paths.
VisibleFiles == {cols[c] : c \in {d \in Columns : cols[d] # NoFile}}

\* The distinct viewColumn values of window.visibleTextEditors.
uniqueViewColumns == {c \in Columns : cols[c] # NoFile}

\* window.activeTextEditor's document, NoFile if there is no active editor.
ActiveFile == IF active = 0 THEN NoFile ELSE cols[active]

Idle ==
    [pc |-> "idle", filePath |-> NoFile, rules |-> <<>>, maxTab |-> 0,
     openedVisibleFiles |-> {}, i |-> 0, targetFilePath |-> NoFile,
     currentColumn |-> 0, targetColumn |-> 0,
     targetColumnForCurrentFile |-> 0, doCloseCurrentFile |-> FALSE]

Init ==
    /\ config \in [enabled : BOOLEAN, maxTab : 0..MaxTabSetting, rules : RuleLists]
    /\ disk \in {Files, {HtmlFile}}
    /\ cols = [c \in Columns |-> NoFile]
    /\ loaded = {}
    /\ active = 0
    /\ hs = [h \in Handlers |-> Idle]
    /\ log = [h \in Handlers |-> <<>>]
    /\ processedFiles = {}

\* ------------------------------------------------------- requests to the host

ProbeRequest(path, i) ==
    [op |-> "fileExists", path |-> path, viewColumn |-> 0,
     preserveFocus |-> FALSE, preview |-> FALSE, rule |-> i]

\* workbench.action.closeActiveEditor, sent by closeCurrentFile(path).
CloseRequest(path, i) ==
    [op |-> "close", path |-> path, viewColumn |-> 0,
     preserveFocus |-> FALSE, preview |-> FALSE, rule |-> i]

\* Mutant: the editor is shown without preserveFocus.
OpenRequestTakingFocus(path, viewColumn, i) ==
    [op |-> "open", path |-> path, viewColumn |-> viewColumn,
     preserveFocus |-> FALSE, preview |-> FALSE, rule |-> i]

\* openFile(path, viewColumn): openTextDocument, then showTextDocument with
\* preserveFocus: true and preview: false.
OpenRequest(path, viewColumn, i) ==
    [op |-> "open", path |-> path, viewColumn |-> viewColumn,
     preserveFocus |-> TRUE, preview |-> FALSE, rule |-> i]

\* ------------------------------------------------------------ host effects

\* The column in which showTextDocument shows an editor asked for at viewColumn:
\* a column number from One on is that column (the host has MaxCol of them),
\* Beside is the column after the active one, anything else the active column.
ShowColumn(viewColumn) ==
    LET cur == IF active = 0 THEN ViewColumnOne ELSE active
    IN  IF viewColumn >= ViewColumnOne
        THEN (IF viewColumn > MaxCol THEN MaxCol ELSE viewColumn)
        ELSE IF viewColumn = ViewColumnBeside
        THEN (IF cur + 1 > MaxCol THEN MaxCol ELSE cur + 1)
        ELSE cur

\* openTextDocument(path) then showTextDocument(doc, {viewColumn, preserveFocus}).
\* The document is loaded and becomes the visible editor of its column; with
\* preserveFocus the active column stays what it is (an editor shown while no
\* editor is active becomes the active one).
HostOpen(req, outcome) ==
    LET c == ShowColumn(req.viewColumn)
    IN  CASE outcome = "ok" ->
               /\ loaded' = loaded \cup {req.path}
               /\ cols' = [cols EXCEPT ![c] = req.path]
               /\ active' = IF req.preserveFocus /\ active # 0 THEN active ELSE c
          [] outcome = "showFails" ->
               /\ loaded' = loaded \cup {req.path}
               /\ UNCHANGED <<cols, active>>
          [] OTHER -> UNCHANGED <<cols, loaded, active>>

\* The columns that show an editor once column c is emptied.
OtherEditors(c) == {d \in Columns : d # c /\ cols[d] # NoFile}

\* An editor of column c is closed: a background tab of the column (a loaded
\* document that is not visible) comes to the front, or the column is left
\* empty and, if it was the active one, another column becomes active.
HostCloseEditor(c) ==
    \E next \in (loaded \ VisibleFiles) \cup {NoFile} :
        /\ cols' = [cols EXCEPT ![c] = next]
        /\ IF next = NoFile /\ active = c
           THEN IF OtherEditors(c) = {} THEN active' = 0
                ELSE active' \in OtherEditors(c)
           ELSE active' = active
        /\ UNCHANGED loaded

\* workbench.action.closeActiveEditor: closes the editor that is active when
\* the command runs, whatever file it shows.
HostCloseActiveEditor(outcome) ==
    IF outcome = "ok" /\ active # 0
    THEN HostCloseEditor(active)
    ELSE UNCHANGED <<cols, loaded, active>>

\* ------------------------------------------------------------ the handler

\* The listener's run ends: it returns (pc "returned") or an exception leaves it
\* (pc "threw").  The locals of the last iteration are gone; i is the index of
\* the rule the for loop stopped at, Len(rules) + 1 when it ran to its end.
Finish(h, r, pc, i) ==
    /\ hs' = [hs EXCEPT ![h] = [r EXCEPT !.pc = pc, !.i = i,
                                         !.openedVisibleFiles = {},
                                         !.targetFilePath = NoFile,
                                         !.currentColumn = 0, !.targetColumn = 0,
                                         !.targetColumnForCurrentFile = 0,
                                         !.doCloseCurrentFile = FALSE]]
    /\ UNCHANGED log

Suspend(h, r, pc, req) ==
    /\ hs' = [hs EXCEPT ![h] = [r EXCEPT !.pc = pc]]
    /\ log' = [log EXCEPT ![h] = Append(@, req)]

\* The for loop of handleFileOpen from rule j on, up to its next await: rules
\* that do not match are skipped; a RegExp that cannot be built throws out of
\* the handler; a rule that matches computes its target and probes for it.
LoopFrom(h, r, j) ==
    LET n == NextStop(r.rules, basename(r.filePath), j)
    IN  IF n = 0 THEN Finish(h, r, "returned", Len(r.rules) + 1)
        ELSE IF RegExpThrows(r.rules[n].triggerPattern)
        THEN Finish(h, r, "threw", n)
        ELSE LET m == RegExpExec(r.rules[n].triggerPattern, basename(r.filePath))
                 target == TargetFilePath(r.filePath, r.rules[n], m.caps)
             IN  Suspend(h, [r EXCEPT !.i = n, !.targetFilePath = target,
                                      !.currentColumn = 0, !.targetColumn = 0,
                                      !.targetColumnForCurrentFile = 0,
                                      !.doCloseCurrentFile = FALSE],
                         "fileExists", ProbeRequest(target, n))

\* Mutant: a failed probe is taken for success.
fileExistsAlways(filePath) == TRUE

\* fileExists(filePath): true if fs.access succeeds, false if it fails for any
\* reason (the catch returns false).
fileExists(filePath) == filePath \in disk

\* Mutant: the onlyIfMultipleTabs test is left out.
TooFewColumnsNever(r) == FALSE

\* Mutant: a closed source is reopened whether or not the rule has an opposite.
OpenArgsAlwaysReopens(r) ==
    IF r.doCloseCurrentFile
    THEN OpenRequest(r.filePath, r.targetColumnForCurrentFile, r.i)
    ELSE OpenRequest(r.targetFilePath, r.targetColumn, r.i)

\* The call of openFile that ends a rule's iteration: the source file if it was
\* closed and the rule has no opposite rule, else the target.
OpenArgs(r) ==
    IF r.doCloseCurrentFile /\ ~r.rules[r.i].hasOppositeRule
    THEN OpenRequest(r.filePath, r.targetColumnForCurrentFile, r.i)
    ELSE OpenRequest(r.targetFilePath, r.targetColumn, r.i)

\* Mutant: the same-file test is left out.
SameAsSourceNever(r) == FALSE

\* if (targetFilePath === filePath) continue
SameAsSource(r) == r.targetFilePath = r.filePath

\* Mutant: every placement is de-duplicated against the visible files only.
AlreadyOpenVisibleOnly(r) == r.targetFilePath \in r.openedVisibleFiles

\* The de-duplication test of a rule whose target exists and is not the source.
AlreadyOpen(r) ==
    IF r.rules[r.i].viewColumn = "active"
    THEN r.targetFilePath \in loaded
    ELSE r.targetFilePath \in r.openedVisibleFiles

\* The onlyIfMultipleTabs test.
TooFewColumns(r) ==
    r.rules[r.i].onlyIfMultipleTabs /\ Cardinality(uniqueViewColumns) <= 1

\* const currentColumn = activeEditor?.viewColumn ?? vscode.ViewColumn.One
CurrentColumn == IF active = 0 THEN ViewColumnOne ELSE active

\* Mutant: the enabled setting is not looked at.
DisabledNever == FALSE

\* const enabled = config.get('enabled', true); if (!enabled) return
Disabled == ~config.enabled

\* onDidChangeActiveTextEditor(editor): a new event, for the editor that is
\* active now (undefined if there is none).
OnDidChangeActiveTextEditor(h) ==
    /\ hs[h].pc = "idle"
    /\ UNCHANGED <<config, disk, processedFiles, cols, loaded, active>>
    /\ IF ActiveFile = NoFile \/ Disabled
       THEN Finish(h, Idle, "returned", 0)
       ELSE LoopFrom(h, [Idle EXCEPT !.filePath = ActiveFile,
                                     !.rules = config.rules,
                                     !.maxTab = config.maxTab,
                                     !.openedVisibleFiles = VisibleFiles], 1)

\* await fileExists(targetFilePath) returns; the guards and the placement of
\* the rule follow, up to the close command or the call of openFile.
FileExistsReturns(h) ==
    LET r == hs[h]
    IN  /\ r.pc = "fileExists"
        /\ UNCHANGED <<config, disk, processedFiles, cols, loaded, active>>
        /\ LET exists == fileExists(r.targetFilePath)
           IN
             IF \/ ~exists
                \/ SameAsSource(r)
                \/ AlreadyOpen(r)
                \/ TooFewColumns(r)
             THEN LoopFrom(h, r, r.i + 1)
             ELSE LET res == ResolveColumn(r.rules[r.i], CurrentColumn, r.maxTab)
                      r2 == [r EXCEPT
                               !.currentColumn = CurrentColumn,
                               !.targetColumn = res.targetColumn,
                               !.targetColumnForCurrentFile =
                                   res.targetColumnForCurrentFile,
                               !.doCloseCurrentFile = res.doCloseCurrentFile]
                  IN  IF res.doCloseCurrentFile /\ r.filePath \in VisibleFiles
                      THEN Suspend(h, r2, "close", CloseRequest(r.filePath, r.i))
                      ELSE Suspend(h, r2, "openFile", OpenArgs(r2))

\* The close command of closeCurrentFile completes (or fails, which is caught);
\* openFile is called next.
CloseReturns(h) ==
    LET r == hs[h]
    IN  /\ r.pc = "close"
        /\ UNCHANGED <<config, disk, processedFiles>>
        /\ \E outcome \in {"ok", "fails"} : HostCloseActiveEditor(outcome)
        /\ Suspend(h, r, "openFile", OpenArgs(r))

\* openFile completes (or fails, which is caught); the loop goes on with the
\* next rule.
OpenFileReturns(h) ==
    LET r == hs[h]
        req == log[h][Len(log[h])]
    IN  /\ r.pc = "openFile"
        /\ UNCHANGED <<config, disk, processedFiles>>
        /\ \E outcome \in (IF req.path \in disk THEN {"ok", "showFails", "openFails"}
                                              ELSE {"openFails"}) :
             HostOpen(req, outcome)
        /\ LoopFrom(h, r, r.i + 1)

\* The promise of the listener settles, fulfilled or rejected: the run is over.
Settled(h) ==
    /\ hs[h].pc \in {"returned", "threw"}
    /\ hs' = [hs EXCEPT ![h] = Idle]
    /\ log' = [log EXCEPT ![h] = <<>>]
    /\ UNCHANGED <<config, disk, processedFiles, cols, loaded, active>>

\* --------------------------------------------------------------- the user

\* The user opens (or switches to) a file in a column and focuses it.
UserShow(f, c) ==
    /\ cols' = [cols EXCEPT ![c] = f]
    /\ loaded' = loaded \cup {f}
    /\ active' = c
    /\ UNCHANGED <<config, disk, processedFiles, hs, log>>

\* The user closes the editor of a column.
UserCloseEditor(c) ==
    /\ cols[c] # NoFile
    /\ HostCloseEditor(c)
    /\ UNCHANGED <<config, disk, processedFiles, hs, log>>

\* The host disposes of a document that no editor shows.
DisposeDocument(f) ==
    /\ f \in loaded \ VisibleFiles
    /\ loaded' = loaded \ {f}
    /\ UNCHANGED <<config, disk, processedFiles, cols, active, hs, log>>

Next ==
    \/ OnDidChangeActiveTextEditor(1)
    \/ FileExistsReturns(1)
    \/ CloseReturns(1)
    \/ OpenFileReturns(1)
    \/ Settled(1)
    \/ \E f \in disk, c \in Columns : UserShow(f, c)
    \/ \E c \in Columns : UserCloseEditor(c)
    \/ \E f \in Files : DisposeDocument(f)

Spec == Init /\ [][Next]_vars

\* ------------------------------------------------- events that overlap
\* The host calls the listener whenever the active editor changes and does not
\* wait for the promise of an earlier call: a run can begin while another is
\* suspended at an await.

ConcurrentConfigs ==
    [enabled : {TRUE}, maxTab : {0},
     rules : {<<Rule(TrigHtml, OpenJs, vc, FALSE, FALSE)>> :
                 vc \in {"beside", "beside-left"}}]

InitConcurrent ==
    /\ config \in ConcurrentConfigs
    /\ disk = Files
    /\ cols = [c \in Columns |-> NoFile]
    /\ loaded = {}
    /\ active = 0
    /\ hs = [h \in Handlers |-> Idle]
    /\ log = [h \in Handlers |-> <<>>]
    /\ processedFiles = {}

NextConcurrent ==
    \/ \E h \in Handlers : OnDidChangeActiveTextEditor(h)
    \/ \E h \in Handlers : FileExistsReturns(h)
    \/ \E h \in Handlers : CloseReturns(h)
    \/ \E h \in Handlers : OpenFileReturns(h)
    \/ \E h \in Handlers : Settled(h)
    \/ \E f \in disk, c \in Columns : UserShow(f, c)
    \/ \E c \in Columns : UserCloseEditor(c)
    \/ \E f \in Files : DisposeDocument(f)

SpecConcurrent == InitConcurrent /\ [][NextConcurrent]_vars

\* ------------------------------------------------ settings that change
\* The user edits the autoOpenFiles settings while the extension runs.

ConfigChoices ==
    [enabled : BOOLEAN, maxTab : {0, 1},
     rules : {<<>>, <<Rule(TrigHtml, OpenJs, "beside-right", FALSE, FALSE)>>}]

\* The extension starts disabled, with the defaults of maxTab and rules.
InitConfig ==
    /\ config = [enabled |-> FALSE, maxTab |-> 0, rules |-> <<>>]
    /\ disk = Files
    /\ cols = [c \in Columns |-> NoFile]
    /\ loaded = {}
    /\ active = 0
    /\ hs = [h \in Handlers |-> Idle]
    /\ log = [h \in Handlers |-> <<>>]
    /\ processedFiles = {}

ChangeConfiguration ==
    /\ config' \in ConfigChoices \ {config}
    /\ UNCHANGED <<disk, processedFiles, cols, loaded, active, hs, log>>

NextConfig ==
    \/ OnDidChangeActiveTextEditor(1)
    \/ FileExistsReturns(1)
    \/ CloseReturns(1)
    \/ OpenFileReturns(1)
    \/ Settled(1)
    \/ \E f \in disk, c \in Columns : UserShow(f, c)
    \/ \E c \in Columns : UserCloseEditor(c)
    \/ \E f \in Files : DisposeDocument(f)
    \/ ChangeConfiguration

SpecConfig == InitConfig /\ [][NextConfig]_vars

\* ------------------------------------------- the build with the memo
\* out/extension.js: the listener keeps processedFiles, the set of the paths it
\* has processed, and handleFileOpen has no de-duplication, no maxTab and no
\* closing of the source.  The rule loop up to the probe and openFile are the
\* same code as above.

\* The settings explored for this build (it reads enabled and rules only).
MemoConfigs ==
    [enabled : BOOLEAN, maxTab : {0},
     rules : {<<Rule(TrigHtml, OpenJs, vc, FALSE, FALSE)>> : vc \in ViewColumns}
             \cup {<<Rule(TrigHtml, OpenJs, "beside-right", FALSE, FALSE),
                     Rule(TrigJs, OpenHtml, "beside-left", FALSE, FALSE)>>}]

InitMemo ==
    /\ config \in MemoConfigs
    /\ disk \in {Files, {HtmlFile}}
    /\ cols = [c \in Columns |-> NoFile]
    /\ loaded = {}
    /\ active = 0
    /\ hs = [h \in Handlers |-> Idle]
    /\ log = [h \in Handlers |-> <<>>]
    /\ processedFiles = {}

\* The clean-up at the start of the listener: the paths of processedFiles that
\* are no longer among workspace.textDocuments are removed.
CleanedUp == {f \in processedFiles : f \in loaded}

\* Mutant: the memo is not consulted.
AlreadyProcessedNever(memo, filePath) == FALSE

\* processedFiles.has(filePath)
AlreadyProcessed(memo, filePath) == filePath \in memo

\* The switch on rule.viewColumn of this build.
MemoViewColumn(rule, currentColumn) ==
    CASE rule.viewColumn = "beside-right" -> currentColumn + 1
      [] rule.viewColumn = "beside-left" ->
            IF currentColumn > ViewColumnOne THEN currentColumn - 1 ELSE ViewColumnOne
      [] rule.viewColumn = "beside" -> ViewColumnBeside
      [] OTHER -> ViewColumnActive

\* onDidChangeActiveTextEditor(editor) of this build: clean-up, the enabled
\* test, the memo test, processedFiles.add, then handleFileOpen up to its first
\* await.
MemoOnDidChangeActiveTextEditor(h) ==
    /\ hs[h].pc = "idle"
    /\ UNCHANGED <<config, disk, cols, loaded, active>>
    /\ IF ActiveFile = NoFile
       THEN Finish(h, Idle, "returned", 0) /\ UNCHANGED processedFiles
       ELSE IF Disabled
       THEN Finish(h, Idle, "returned", 0) /\ processedFiles' = CleanedUp
       ELSE IF AlreadyProcessed(CleanedUp, ActiveFile)
       THEN /\ Finish(h, [Idle EXCEPT !.filePath = ActiveFile], "returned", 0)
            /\ processedFiles' = CleanedUp
       ELSE /\ processedFiles' = CleanedUp \cup {ActiveFile}
            /\ LoopFrom(h, [Idle EXCEPT !.filePath = ActiveFile,
                                        !.rules = config.rules], 1)

\* await fileExists(targetFilePath) returns in this build: the same-file test,
\* the switch, and the open request.
MemoFileExistsReturns(h) ==
    LET r == hs[h]
    IN  /\ r.pc = "fileExists"
        /\ UNCHANGED <<config, disk, processedFiles, cols, loaded, active>>
        /\ IF ~fileExists(r.targetFilePath) \/ SameAsSource(r)
           THEN LoopFrom(h, r, r.i + 1)
           ELSE LET viewColumn == MemoViewColumn(r.rules[r.i], CurrentColumn)
                IN  Suspend(h, [r EXCEPT !.currentColumn = CurrentColumn,
                                         !.targetColumn = viewColumn],
                            "openFile",
                            OpenRequest(r.targetFilePath, viewColumn, r.i))

\* The command autoOpenFiles.resetCache: processedFiles.clear().
resetCache ==
    /\ processedFiles' = {}
    /\ UNCHANGED <<config, disk, cols, loaded, active, hs, log>>

\* The host disposes of a document that no editor shows and tells the
\* onDidCloseTextDocument listener, which deletes its path from processedFiles.
onDidCloseTextDocument(f) ==
    /\ f \in loaded \ VisibleFiles
    /\ loaded' = loaded \ {f}
    /\ processedFiles' = processedFiles \ {f}
    /\ UNCHANGED <<config, disk, cols, active, hs, log>>

NextMemo ==
    \/ MemoOnDidChangeActiveTextEditor(1)
    \/ MemoFileExistsReturns(1)
    \/ OpenFileReturns(1)
    \/ Settled(1)
    \/ \E f \in disk, c \in Columns : UserShow(f, c)
    \/ \E c \in Columns : UserCloseEditor(c)
    \/ \E f \in Files : onDidCloseTextDocument(f)
    \/ resetCache

SpecMemo == InitMemo /\ [][NextMemo]_vars

\* ================================================================ claims

\* The requests a handler has sent so far in its current event.
Requests(h) == {log[h][n] : n \in 1..Len(log[h])}

\* The rule a request of handler h was sent for.
RuleOf(h, req) == hs[h].rules[req.rule]

\* The part of a path after its last "/", found by scanning from the left.
RECURSIVE LastSegment(_)
LastSegment(p) ==
    IF \A n \in 1..Len(p) : p[n] # "/" THEN p
    ELSE LastSegment(Tail(p))

\* The part of a path before its last "/".
Directory(p) == SubSeq(p, 1, Len(p) - Len(LastSegment(p)) - 1)

\* A replacement that replaces every occurrence, left to right.
RECURSIVE StringReplaceAll(_, _, _)
StringReplaceAll(s, pat, rep) ==
    LET p == IndexOf(s, pat)
    IN  IF p = 0 \/ pat = <<>> THEN s
        ELSE SubSeq(s, 1, p - 1) \o rep
             \o StringReplaceAll(SubSeq(s, p + Len(pat), Len(s)), pat, rep)

\* openPattern with every occurrence of $i, i = 1..N, replaced by capture i,
\* or by the empty string when group i did not participate.
RECURSIVE SubstituteAll(_, _, _)
SubstituteAll(openPattern, caps, i) ==
    IF i > Len(caps) THEN openPattern
    ELSE SubstituteAll(
             StringReplaceAll(openPattern, <<"$", Digit(i)>>,
                              IF caps[i] = Undefined THEN <<>> ELSE caps[i]),
             caps, i + 1)

\* The candidate target path the claims describe for rule n of handler h.
ClaimedTarget(h, n) ==
    LET r == hs[h]
        m == RegExpExec(r.rules[n].triggerPattern, LastSegment(r.filePath))
    IN  Directory(r.filePath) \o <<"/">>
        \o SubstituteAll(r.rules[n].openPattern, m.caps, 1)

\* C1: for every rule whose triggerPattern matches the base name, the candidate
\* target path (the path that is probed) is the source's directory joined with
\* openPattern in which each placeholder $i occurring in it is replaced by
\* capture i, or by the empty string when group i did not participate.
C1_TargetReplacesEveryPlaceholder ==
    \A h \in Handlers : \A req \in Requests(h) :
        req.op = "fileExists" => req.path = ClaimedTarget(h, req.rule)

\* C2: a rule whose triggerPattern does not match the file's base name (the base
\* name, not the full path) causes no existence probe, no close request and no
\* open request.
C2_NoMatchNoAction ==
    \A h \in Handlers : \A req \in Requests(h) :
        RegExpExec(RuleOf(h, req).triggerPattern, LastSegment(hs[h].filePath)).ok

\* C2's case: the handler has passed a rule whose pattern matches the full path
\* but not the base name, and is at a later rule.
C2_Witness ==
    \E h \in Handlers :
        /\ hs[h].pc = "fileExists"
        /\ \E n \in 1..(hs[h].i - 1) :
             /\ RegExpExec(hs[h].rules[n].triggerPattern, hs[h].filePath).ok
             /\ ~RegExpExec(hs[h].rules[n].triggerPattern,
                            LastSegment(hs[h].filePath)).ok

\* The requests handler h sends in a step (at most one is sent per step).
Issued(h) ==
    IF Len(log'[h]) = Len(log[h]) + 1 THEN {log'[h][Len(log'[h])]} ELSE {}

\* The target path the code computes for rule n of handler h's event.
ComputedTarget(h, n) ==
    LET r == hs[h]
    IN  TargetFilePath(r.filePath, r.rules[n],
                       RegExpExec(r.rules[n].triggerPattern,
                                  LastSegment(r.filePath)).caps)

SidePlacements == {"beside", "beside-left", "beside-right"}

C4_SameFileNoAction ==
    \A h \in Handlers : \A req \in Requests(h) :
        req.op \in {"open", "close"} =>
            ComputedTarget(h, req.rule) # hs[h].filePath

\* C4's case: the handler has probed a target that is its source file, has
\* sent nothing else for that rule, and is at a later rule.
C4_Witness ==
    \E h \in Handlers : \E n \in 1..Len(log[h]) :
        /\ log[h][n].op = "fileExists"
        /\ log[h][n].path = hs[h].filePath
        /\ log[h][n].path \in disk
        /\ hs[h].i > log[h][n].rule

\* The handlers that are past the guards of a rule with placement vc: the
\* placement of the rule is resolved and its close or open request is out.
Placed(h, vcs) ==
    /\ hs[h].pc \in {"close", "openFile"}
    /\ hs[h].rules[hs[h].i].viewColumn \in vcs

\* The request a handler is suspended at.
LastRequest(h) == log[h][Len(log[h])]

C5_WitnessClamped ==
    \E h \in Handlers :
        /\ Placed(h, {"beside-left"})
        /\ hs[h].currentColumn > 1
        /\ hs[h].targetColumn # hs[h].currentColumn - 1

\* C6: handling a rule with hasOppositeRule never sends an open request for the
\* source path: every open request of such a rule names the rule's target, and
\* once the source has been closed to make room (a close request of the rule is
\* out) the one open request that follows is for the target.
C6_OppositeRuleNeverReopensSource ==
    \A h \in Handlers : \A n \in 1..Len(log[h]) :
        LET req == log[h][n]
        IN  (req.op = "open" /\ RuleOf(h, req).hasOppositeRule) =>
                /\ req.path # hs[h].filePath
                /\ req.path = ComputedTarget(h, req.rule)
                /\ \A m \in 1..Len(log[h]) :
                     (log[h][m].op = "open" /\ log[h][m].rule = req.rule) => m = n

\* C6's case: the mirrored configuration (two rules, both with an opposite
\* rule), the beside-left rule at column 1: the close of the source was asked
\* for and the open request that follows is for the target.
C6_Witness ==
    \E h \in Handlers :
        /\ Len(hs[h].rules) = 2
        /\ \A n \in 1..2 : hs[h].rules[n].hasOppositeRule
        /\ Placed(h, {"beside-left"})
        /\ hs[h].pc = "openFile"
        /\ Len(log[h]) >= 2
        /\ log[h][Len(log[h]) - 1] = CloseRequest(hs[h].filePath, hs[h].i)
        /\ LastRequest(h) = OpenRequest(hs[h].targetFilePath, 1, hs[h].i)

\* The column C7 states for a target placed from column k under maxTab.
ClaimedRightColumn(k, maxTab) ==
    IF maxTab = 0 \/ k + 1 <= maxTab THEN k + 1 ELSE maxTab

\* C7: for a beside-right rule past its guards with current column k, the
\* target column is k + 1 when maxTab is 0 or k + 1 <= maxTab, and maxTab when
\* maxTab > 0 and k + 1 > maxTab; every open request for the rule's target
\* names that column.
C7_BesideRightClamp ==
    \A h \in Handlers : Placed(h, {"beside-right"}) =>
        LET r == hs[h]
        IN  /\ r.targetColumn = ClaimedRightColumn(r.currentColumn, r.maxTab)
            /\ \A req \in Requests(h) :
                 (req.op = "open" /\ req.rule = r.i /\ req.path = r.targetFilePath)
                    => req.viewColumn = ClaimedRightColumn(r.currentColumn, r.maxTab)

\* C7's case: maxTab = 2, current column 2, so the computed column 3 is clamped
\* and the open request for the target names column 2.
C7_Witness ==
    \E h \in Handlers :
        /\ Placed(h, {"beside-right"})
        /\ hs[h].maxTab = 2
        /\ hs[h].currentColumn = 2
        /\ hs[h].pc = "openFile"
        /\ LastRequest(h) = OpenRequest(hs[h].targetFilePath, 2, hs[h].i)

\* C8: when maxTab > 0, no open request, for a target or for a source that is
\* reopened, names a column number greater than maxTab.
C8_OpenWithinMaxTab ==
    \A h \in Handlers : \A req \in Requests(h) :
        (req.op = "open" /\ hs[h].maxTab > 0 /\ req.viewColumn >= ViewColumnOne)
            => req.viewColumn <= hs[h].maxTab

\* C9: for a rule with 'beside' placement past its guards, the open request
\* passes the host's Beside marker and names the target, and the source is
\* neither closed nor reopened.
C9_BesideUsesBesideMarker ==
    \A h \in Handlers : Placed(h, {"beside"}) =>
        /\ ~hs[h].doCloseCurrentFile
        /\ hs[h].pc = "openFile"
        /\ LastRequest(h) =
              OpenRequest(hs[h].targetFilePath, ViewColumnBeside, hs[h].i)

\* C10: every open request, for a target or for a reopened source, asks for
\* preserveFocus and for a permanent (non-preview) editor.  And when the open
\* request of a 'beside' rule for its target completes while the source is the
\* active file, in the column it was in when the rule was placed, with the
\* source not closed by the rule (as with the default maxTab = 0) and a column
\* to its right on offer, the source is still the active file afterwards.
C10_OpenPreservesFocus ==
    [][\A h \in Handlers :
        /\ \A req \in Requests(h)' :
             req.op = "open" => (req.preserveFocus /\ ~req.preview)
        /\ ( /\ hs[h].pc = "openFile"
             /\ hs'[h] # hs[h]
             /\ hs[h].rules[hs[h].i].viewColumn = "beside"
             /\ LastRequest(h).path = hs[h].targetFilePath
             /\ ~hs[h].doCloseCurrentFile
             /\ ActiveFile = hs[h].filePath
             /\ active = hs[h].currentColumn
             /\ active < MaxCol )
           => (ActiveFile' = hs[h].filePath /\ active' = active)
      ]_vars

\* C10's case: the open request of a 'beside' rule for its target is out, with
\* maxTab = 0, while the source is the active file; the target is on disk and
\* not visible.
C10_Witness ==
    \E h \in Handlers :
        /\ Placed(h, {"beside"})
        /\ hs[h].pc = "openFile"
        /\ hs[h].maxTab = 0
        /\ LastRequest(h).op = "open"
        /\ LastRequest(h).preserveFocus
        /\ LastRequest(h).path = hs[h].targetFilePath
        /\ hs[h].targetFilePath \in disk \ VisibleFiles
        /\ ActiveFile = hs[h].filePath
        /\ active = hs[h].currentColumn
        /\ active < MaxCol

\* The number of columns that show an editor.
PanesInUse == Cardinality({c \in Columns : cols[c] # NoFile})

\* A rule at its probe whose target exists, is not the source and passes the
\* de-duplication of its placement.
PassesEarlierGuards(r) ==
    /\ r.targetFilePath \in disk
    /\ r.targetFilePath # r.filePath
    /\ IF r.rules[r.i].viewColumn = "active"
       THEN r.targetFilePath \notin loaded
       ELSE r.targetFilePath \notin r.openedVisibleFiles

\* C11: when the probe of a rule with onlyIfMultipleTabs returns while the
\* visible editors occupy at most one column, the rule is skipped: the handler
\* goes on to a later rule (or ends) and sends no close and no open request for
\* the rule, whatever its placement and column; with more than one column in
\* use the rule is not skipped by this test and goes on to its placement.  The
\* requests a handler sends are for the rule it is at, so a rule that was
\* skipped sends none later.
C11_MultipleTabsGuard ==
    [][\A h \in Handlers :
        /\ \A req \in Issued(h) : req.rule = hs'[h].i
        /\ ( /\ hs[h].pc = "fileExists"
             /\ hs'[h] # hs[h]
             /\ hs[h].rules[hs[h].i].onlyIfMultipleTabs )
           => IF PanesInUse <= 1
              THEN /\ hs'[h].i > hs[h].i
                   /\ \A req \in Issued(h) : req.op = "fileExists"
              ELSE PassesEarlierGuards(hs[h]) =>
                      (hs'[h].pc \in {"close", "openFile"} /\ hs'[h].i = hs[h].i)
      ]_vars

\* C11's case: a beside-left rule with onlyIfMultipleTabs was skipped with its
\* source the only editor, in column 1, and its target on disk and not open:
\* the only request sent for it is its probe, and the handler is at rule 2.
C11_Witness ==
    \E h \in Handlers :
        /\ hs[h].pc = "fileExists"
        /\ hs[h].i = 2
        /\ hs[h].rules[1].onlyIfMultipleTabs
        /\ hs[h].rules[1].viewColumn = "beside-left"
        /\ Len(log[h]) = 2
        /\ log[h][1] = ProbeRequest(JsFile, 1)
        /\ JsFile \in disk \ loaded
        /\ hs[h].openedVisibleFiles = {hs[h].filePath}
        /\ active = 1
        /\ PanesInUse = 1

\* C12: a matching rule whose probe fails (the target is not an accessible
\* path) sends no close and no open request: every close or open request is for
\* a rule whose target is accessible; and when the probe of such a rule
\* returns, the handler goes on with the rules after it: it is at a later rule
\* or has run through the list, and if it ended by an exception that is the
\* exception of a later rule's pattern, not of the probe.
C12_FailedProbeSkipsRule ==
    [][\A h \in Handlers :
        /\ \A req \in Issued(h) :
             req.op \in {"open", "close"} =>
                 (req.rule = hs'[h].i /\ hs'[h].targetFilePath \in disk)
        /\ ( /\ hs[h].pc = "fileExists"
             /\ hs'[h] # hs[h]
             /\ hs[h].targetFilePath \notin disk )
           => /\ hs'[h].i > hs[h].i
              /\ \A req \in Issued(h) : req.op = "fileExists"
              /\ hs'[h].pc \in {"fileExists", "returned", "threw"}
              /\ hs'[h].pc = "threw" =>
                     RegExpThrows(hs[h].rules[hs'[h].i].triggerPattern)
              /\ \A j \in (hs[h].i + 1)..(hs'[h].i - 1) :
                     ~RegExpExec(hs[h].rules[j].triggerPattern,
                                 LastSegment(hs[h].filePath)).ok
      ]_vars

\* C12's case: the probe of rule 1 was for a path that is not on disk; nothing
\* else was sent for rule 1 and the handler is at the probe of rule 2.
C12_Witness ==
    \E h \in Handlers :
        /\ hs[h].pc = "fileExists"
        /\ hs[h].i = 2
        /\ Len(log[h]) = 2
        /\ log[h][1].op = "fileExists"
        /\ log[h][1].rule = 1
        /\ log[h][1].path \notin disk

\* The positions of the log at which a request of kind op for rule j stands.
Sent(h, op, j) == {n \in 1..Len(log[h]) : log[h][n].op = op /\ log[h][n].rule = j}

\* The listener's run is over, and it was a handled event: there was an active
\* editor and the extension was enabled.
Handled(h) == hs[h].pc \in {"returned", "threw"} /\ hs[h].filePath # NoFile

\* C13: when a handled event is over, the loop has been through the whole list:
\* it did not stop at a rule, every rule whose pattern matches the base name was
\* probed exactly once, and the requests are in list order; a failed open or
\* close does not stop the loop, and a close request of a rule is followed by
\* the open request of that rule.
C13_EveryRuleEvaluatedOnce ==
    \A h \in Handlers :
        /\ \A n \in 1..(Len(log[h]) - 1) :
             /\ log[h][n].rule <= log[h][n + 1].rule
             /\ log[h][n].op = "close" =>
                    (log[h][n + 1].op = "open" /\ log[h][n + 1].rule = log[h][n].rule)
        /\ Handled(h) =>
             /\ hs[h].pc = "returned"
             /\ hs[h].i = Len(hs[h].rules) + 1
             /\ \A j \in 1..Len(hs[h].rules) :
                  IF RegExpExec(hs[h].rules[j].triggerPattern,
                                LastSegment(hs[h].filePath)).ok
                  THEN Cardinality(Sent(h, "fileExists", j)) = 1
                  ELSE \A n \in 1..Len(log[h]) : log[h][n].rule # j

\* A listener run of handler h begins in this step.
Starts(h) == hs[h].pc = "idle" /\ hs'[h].pc # "idle"

\* The rules of the configured list whose pattern matches the base name of f and
\* whose target is not a loaded document (the related file is not open).
RelatedNotOpen(f) ==
    {j \in 1..Len(config.rules) :
        LET m == RegExpExec(config.rules[j].triggerPattern, LastSegment(f))
        IN  /\ m.ok
            /\ TargetFilePath(f, config.rules[j], m.caps) \notin loaded}

\* C14: an event for a trigger file whose related file is not open (it was
\* missing at the probe of an earlier event, or the host failed to open it), with
\* the extension enabled, evaluates the rules again: the first matching rule is
\* probed, whatever events for the file were handled before.
C14_RefocusEvaluatesAgain ==
    [][\A h \in Handlers :
        ( /\ Starts(h)
          /\ ActiveFile # NoFile
          /\ config.enabled
          /\ RelatedNotOpen(ActiveFile) # {} )
        => /\ hs'[h].pc = "fileExists"
           /\ hs'[h].filePath = ActiveFile
      ]_vars

\* In this step the listener run that begins enters the rule loop.
Evaluates(h) == Starts(h) /\ hs'[h].rules # <<>>

\* C15: the memo.  An event for a path that is in processedFiles returns without
\* evaluating a rule and sends nothing.  A run that evaluates the rules is for a
\* path that was not in the memo and is in it once the run has begun (it is
\* added before the loop).  An event for a path not in the memo, with the
\* extension enabled, evaluates the rules.  A close notification removes the
\* path of the closed document and no other; otherwise a path leaves the memo
\* only when resetCache clears it.  So between two removals of a path the rules
\* are evaluated for it at most once.
C15_ProcessedFilesMemo ==
    [][\A h \in Handlers :
        /\ (Starts(h) /\ ActiveFile \in processedFiles) =>
               /\ ~Evaluates(h)
               /\ hs'[h].pc = "returned"
               /\ log'[h] = <<>>
        /\ Evaluates(h) =>
               /\ ActiveFile \notin processedFiles
               /\ ActiveFile \in processedFiles'
               /\ hs'[h].filePath = ActiveFile
        /\ (Starts(h) /\ ActiveFile # NoFile /\ config.enabled
                      /\ ActiveFile \notin processedFiles) => Evaluates(h)
        /\ Starts(h) => processedFiles \subseteq processedFiles'
        /\ (loaded' # loaded /\ loaded' \subseteq loaded) =>
               processedFiles' = processedFiles \ (loaded \ loaded')
        /\ (processedFiles \ processedFiles' # {} /\ loaded' = loaded) =>
               processedFiles' = {}
      ]_vars

\* C15's case: an event for a path that is in the memo has returned without
\* reading the rules and without a request.
C15_Witness ==
    \E h \in Handlers :
        /\ hs[h].pc = "returned"
        /\ hs[h].filePath = HtmlFile
        /\ hs[h].rules = <<>>
        /\ log[h] = <<>>
        /\ HtmlFile \in processedFiles
        /\ config.enabled

\* The listener runs that have begun and are suspended at an await.
InFlight == {h \in Handlers : hs[h].pc \in {"fileExists", "close", "openFile"}}

\* C16: at any moment at most one listener run has begun and not yet ended: no
\* run begins while another is suspended at a probe, a close request or an open
\* request.
C16_OneHandlerAtATime == Cardinality(InFlight) <= 1

\* C17: the settings are read when an event begins.  An event that begins with
\* no active editor, or while enabled is false, returns at once: no probe, no
\* close and no open request, and a run that has returned sends nothing.  An
\* event that begins with an active editor while enabled is true works with the
\* rules and the maxTab that are set at that moment, whatever they were at
\* earlier events.
C17_ConfigurationReadPerEvent ==
    [][\A h \in Handlers :
        /\ (Starts(h) /\ (ActiveFile = NoFile \/ ~config.enabled)) =>
               /\ hs'[h].pc = "returned"
               /\ hs'[h].rules = <<>>
               /\ log'[h] = <<>>
        /\ (Starts(h) /\ ActiveFile # NoFile /\ config.enabled) =>
               /\ hs'[h].filePath = ActiveFile
               /\ hs'[h].rules = config.rules
               /\ hs'[h].maxTab = config.maxTab
        /\ hs[h].pc \in {"returned", "threw"} => log'[h] \in {log[h], <<>>}
      ]_vars

\* C17's case: the settings were changed from the initial ones (disabled,
\* maxTab 0, no rules) before the event, and the run works with the new ones:
\* the open request of the new rule is out, placed under maxTab = 1.
C17_Witness ==
    \E h \in Handlers :
        /\ hs[h].pc \in {"close", "openFile"}
        /\ hs[h].maxTab = 1
        /\ hs[h].rules = <<Rule(TrigHtml, OpenJs, "beside-right", FALSE, FALSE)>>
        /\ hs[h].currentColumn = 1
        /\ hs[h].doCloseCurrentFile

\* C17's other case: an event was handled while enabled was false, with an
\* editor active and a matching rule set: it returned without a request.
C17_WitnessDisabled ==
    \E h \in Handlers :
        /\ hs[h].pc = "returned"
        /\ hs[h].filePath = NoFile
        /\ log[h] = <<>>
        /\ ~config.enabled
        /\ ActiveFile = HtmlFile
        /\ config.rules # <<>>

\* C18: every column an open request names, for a target or for a reopened
\* source, is a column number from 1 on, or one of the host's markers for the
\* active column and the column beside it.
C18_PaneIndexPositive ==
    \A h \in Handlers : \A req \in Requests(h) :
        req.op = "open" =>
            \/ req.viewColumn >= 1
            \/ req.viewColumn \in {ViewColumnActive, ViewColumnBeside}

\* The rules of handler h's event whose iteration is over and that were placed:
\* they matched and passed every guard, so a close or an open request was sent
\* for them.
PlacedRules(h) ==
    {j \in 1..Len(hs[h].rules) :
        /\ j < hs[h].i
        /\ Sent(h, "close", j) \cup Sent(h, "open", j) # {}}

\* C19: a rule that matched and passed all guards has, once its iteration is
\* over, exactly one open request for its target path, also when the source was
\* closed and reopened; and at most one close request and at most two open
\* requests were sent for it.
C19_TargetOpenedOncePerRule ==
    \A h \in Handlers : \A j \in PlacedRules(h) :
        /\ Cardinality({n \in Sent(h, "open", j) :
                           log[h][n].path = ComputedTarget(h, j)}) = 1
        /\ Cardinality(Sent(h, "close", j)) <= 1
        /\ Cardinality(Sent(h, "open", j)) <= 2

\* The positions of the log with an open request, under a side placement, for
\* the target of its rule.
SideTargetOpens(h) ==
    {n \in 1..Len(log[h]) :
        /\ log[h][n].op = "open"
        /\ RuleOf(h, log[h][n]).viewColumn \in SidePlacements
        /\ log[h][n].path # hs[h].filePath}

\* C20: within one event no two open requests with a side placement are for the
\* same target path.
C20_NoSecondSideOpen ==
    \A h \in Handlers : \A n, m \in SideTargetOpens(h) :
        log[h][n].path = log[h][m].path => n = m

\* C21: when the close command of a run for source file F acts, the editor the
\* host closes is one that shows F; and the column a rule is placed from is a
\* column that shows F, as long as an editor shows F, also when the user has
\* focused another editor while the run was suspended.
C21_CloseAndPlacementOfSource ==
    [][\A h \in Handlers :
        /\ (hs[h].pc = "close" /\ hs'[h].pc = "openFile") =>
               \A c \in Columns : cols'[c] # cols[c] => cols[c] = hs[h].filePath
        /\ ( /\ hs[h].pc = "fileExists"
             /\ hs'[h].pc \in {"close", "openFile"}
             /\ hs[h].filePath \in VisibleFiles
             /\ active # 0 )
           => cols[hs'[h].currentColumn] = hs[h].filePath
      ]_vars

\* C22: a rule whose triggerPattern cannot be compiled is passed over like a
\* rule that does not match: no run ends by an exception, nothing is sent for
\* the rule, and when a handled event is over the loop has been through the
\* whole list, every later rule that matches the base name having been probed.
C22_BadPatternIsSkipped ==
    \A h \in Handlers :
        /\ hs[h].pc # "threw"
        /\ \A req \in Requests(h) : ~RegExpThrows(RuleOf(h, req).triggerPattern)
        /\ Handled(h) =>
             /\ hs[h].i = Len(hs[h].rules) + 1
             /\ \A j \in 1..Len(hs[h].rules) :
                  ( /\ ~RegExpThrows(hs[h].rules[j].triggerPattern)
                    /\ RegExpExec(hs[h].rules[j].triggerPattern,
                                  LastSegment(hs[h].filePath)).ok )
                  => Sent(h, "fileExists", j) # {}

====
